---- MODULE Spec2Model ----
(***************************************************************************)
(* State-machine model of src/ruby/ext/grpc/rb_channel_credentials.c:      *)
(* the ChannelCredentials wrapper (alloc / initialize / initialize_copy /  *)
(* compose / free / mark), the checkServerIdentity verification callback   *)
(* trampoline, and the process-wide default roots buffer.                  *)
(***************************************************************************)
EXTENDS Integers, Sequences, FiniteSets, TLC

\* ------------------------------------------------------------------ bounds
\* Number of ChannelCredentials wrapper objects the runtime may allocate.
MaxOwners == 2
\* Number of grpc_channel_credentials handles the provider may create.
MaxHandles == 3
\* Longest argument list given to compose.
MaxExtras == 2
\* Number of native threads that may run the verification callback.
NumThreads == 2
\* Number of buffers set_default_roots_pem may allocate.
MaxBuffers == 3

\* --------------------------------------------------------------- constants
\* C NULL for a grpc_channel_credentials* / grpc_call_credentials* / char*.
NULL == 0
\* Ruby's Qnil.
Qnil == "nil"
\* What RSTRING_PTR yields when applied to a non-String special constant:
\* the read is undefined, the pointer is not the text of any Ruby String.
Garbage == "garbage"

Owners == 1..MaxOwners
\* Two initialised CallCredentials objects exist in the program.
CallCreds == 1..2

\* Ruby object references kept in a mark array.
Chan(i) == <<"chan", i>>
Call(j) == <<"call", j>>
\* A Ruby value that is not a CallCredentials object.
Other(k) == <<"other", k>>

\* Values a caller may pass for checkServerIdentity.
ProcA == "ProcA"
SymB == "SymB"
NotCallable == "NotCallable"
rb_class_of(v) ==
    CASE v = ProcA -> "Proc"
      [] v = SymB -> "Symbol"
      [] v = Qnil -> "NilClass"
      [] OTHER -> "String"

Range(s) == {s[i] : i \in 1..Len(s)}

VARIABLES
    ostate,      \* owner -> "unalloc" | "live" | "freed"
    wrapped,     \* owner -> handle id (wrapper->wrapped), NULL when absent
    mark,        \* owner -> wrapper->mark as a sequence (<<>> is Qnil)
    ivars,       \* owner -> hidden instance variables set by initialize
    rooted,      \* owners the application still references
    ccstate,     \* call credentials -> "live" | "freed"
    ccRooted,    \* call credentials the application still references
    handles,     \* provider: record of every handle created, in order
    released,    \* provider: number of release calls received per handle
    crashed,     \* the process was terminated by a fault
    last,        \* outcome of the last Ruby-visible operation
    pc,          \* thread -> position inside verify_peer_callback_wrapper
    params,      \* thread -> arguments of its trampoline invocation
    gvl,         \* holder of the global VM lock, 0 when free
    passthrough, \* thread -> the array handed to rb_rescue
    outcome,     \* thread -> how its callable ended
    rb_result,   \* thread -> number produced by rb_rescue
    ret,         \* thread -> int returned to the provider
    pem_root_certs, \* the static char *pem_root_certs: NULL or a buffer
    heap,        \* contents of the buffers gpr_malloc has returned
    setting,     \* the set_default_roots_pem call in progress
    override,    \* the provider's call of get_ssl_roots_override
    last_roots   \* argument of the last completed set_default_roots_pem

ownerVars == <<ostate, wrapped, mark, ivars, rooted, ccstate, ccRooted,
               handles, released, crashed, last>>
trampVars == <<pc, params, passthrough, gvl, outcome, rb_result, ret>>
rootVars == <<pem_root_certs, heap, setting, override, last_roots>>
vars == <<ostate, wrapped, mark, ivars, rooted, ccstate, ccRooted,
          handles, released, crashed, last, pc, params, passthrough, gvl,
          outcome, rb_result, ret, pem_root_certs, heap, setting, override,
          last_roots>>

\* ------------------------------------------------------------ provider
\* A NULL char* / void* handed to the provider.
CNULL == "NULL"

\* Lines 318-323: the pointer stored through pem_root_certs_ptr is the
\* value p1 read at line 318, the result comes from the value p2 read at
\* line 319.
roots_override_result(p1, p2) == [found |-> p2 # NULL, ptr |-> p1]

\* The provider, given no explicit roots, asks the hook registered at line
\* 354 for the default roots when the handle is created.
provider_default_roots(roots) ==
    LET r == roots_override_result(pem_root_certs, pem_root_certs)
    IN IF roots = CNULL /\ r.found THEN r.ptr ELSE NULL

\* grpc_ssl_credentials_create: what the provider was given, and the
\* default roots buffer it obtained.
SslHandle(roots, has_pair, private_key, cert_chain, userdata) ==
    [kind |-> "ssl", roots |-> roots, has_pair |-> has_pair,
     private_key |-> private_key, cert_chain |-> cert_chain,
     userdata |-> userdata, chan |-> NULL, call |-> NULL,
     default_roots |-> provider_default_roots(roots)]

\* grpc_composite_channel_credentials_create: what the provider was given.
CompositeHandle(chan, call) ==
    [kind |-> "composite", roots |-> CNULL, has_pair |-> FALSE,
     private_key |-> CNULL, cert_chain |-> CNULL, userdata |-> CNULL,
     chan |-> chan, call |-> call, default_roots |-> NULL]

\* grpc_channel_credentials_release(c): a no-op on NULL, else one more
\* release call counted against the handle.
grpc_channel_credentials_release(rel, c) ==
    IF c = NULL THEN rel ELSE [rel EXCEPT ![c] = @ + 1]

RECURSIVE ReleaseAll(_, _)
ReleaseAll(rel, cs) ==
    IF cs = <<>> THEN rel
    ELSE ReleaseAll(grpc_channel_credentials_release(rel, Head(cs)), Tail(cs))

\* ------------------------------------------------------------- collector
\* What grpc_rb_channel_credentials_mark reports to the collector: nothing
\* when mark is Qnil, else the elements of the mark array.
grpc_rb_channel_credentials_mark(o) == Range(mark[o])

RECURSIVE Reach(_)
Reach(S) ==
    LET N == S \cup {i \in Owners :
                      \E o \in S : Chan(i) \in grpc_rb_channel_credentials_mark(o)}
    IN IF N = S THEN S ELSE Reach(N)

\* Owners the collector may not reclaim.
ReachableOwners == Reach(rooted)
ReachableCalls ==
    ccRooted \cup {j \in CallCreds :
                     \E o \in ReachableOwners :
                        Call(j) \in grpc_rb_channel_credentials_mark(o)}

NoIvars ==
    [pem_root_certs |-> Qnil, pem_private_key |-> Qnil,
     pem_cert_chain |-> Qnil, check_server_identity_cb |-> Qnil]

\* Record of a Ruby-visible call: the receiver, the exception raised ("ok"
\* when none), the owner returned (0 when none), the arguments of compose,
\* the receiver's handle before and after, the handles the provider created
\* and the handles released during the call, and the calls compose made to
\* the provider, in order.
Last(op, self, status, result, argv, pre, post, allocated, rel, calls) ==
    [op |-> op, self |-> self, status |-> status, result |-> result,
     argv |-> argv, pre |-> pre, post |-> post, allocated |-> allocated,
     rel |-> rel, calls |-> calls]

NoCall == Last("none", 0, "ok", 0, <<>>, NULL, NULL, <<>>, <<>>, <<>>)

\* The process is alive and no call is waiting to hand its result back.
Running == ~crashed /\ last.op = "none"

InitOwners ==
    /\ ostate = [o \in Owners |-> "unalloc"]
    /\ wrapped = [o \in Owners |-> NULL]
    /\ mark = [o \in Owners |-> <<>>]
    /\ ivars = [o \in Owners |-> NoIvars]
    /\ rooted = {}
    /\ ccstate = [j \in CallCreds |-> "live"]
    /\ ccRooted = CallCreds
    /\ handles = <<>>
    /\ released = <<>>
    /\ crashed = FALSE
    /\ last = NoCall

\* ------------------------------------------------- ChannelCredentials.new
\* grpc_rb_channel_credentials_alloc: a fresh wrapper with wrapped = NULL and
\* mark = Qnil, returned to the caller.
grpc_rb_channel_credentials_alloc(o) ==
    /\ Running
    /\ UNCHANGED <<trampVars, rootVars>>
    /\ ostate[o] = "unalloc"
    /\ \A p \in Owners : p < o => ostate[p] # "unalloc"
    /\ ostate' = [ostate EXCEPT ![o] = "live"]
    /\ wrapped' = [wrapped EXCEPT ![o] = NULL]
    /\ mark' = [mark EXCEPT ![o] = <<>>]
    /\ rooted' = rooted \cup {o}
    /\ UNCHANGED <<ivars, ccstate, ccRooted, handles, released, crashed, last>>

\* The options hash: absent, or holding a value under "checkServerIdentity"
\* (Qnil when the key is missing).
NoOptions == [given |-> FALSE, checkServerIdentity |-> Qnil]

\* RSTRING_PTR(v): the text of a String; applied to Qnil it reads memory
\* that is not a String.
RSTRING_PTR(v) == IF v = Qnil THEN Garbage ELSE v

\* Variant with a fault: the class of the option is not looked at.
OptionTypeAny(option_value) == TRUE
\* Line 253: the option must be a Proc or a Symbol.
OptionTypeOk(option_value) ==
    rb_class_of(option_value) \in {"Proc", "Symbol"}

\* Lines 265-272: the request handed to grpc_ssl_credentials_create.
SslRequest(pem_root, pem_key, pem_chain, userdata) ==
    LET cstr == IF pem_root # Qnil THEN RSTRING_PTR(pem_root) ELSE CNULL
    IN IF pem_key = Qnil /\ pem_chain = Qnil
       THEN SslHandle(cstr, FALSE, CNULL, CNULL, userdata)
       ELSE SslHandle(cstr, TRUE, RSTRING_PTR(pem_key),
                      RSTRING_PTR(pem_chain), userdata)

\* grpc_rb_channel_credentials_init(argc, argv, self).  fault says how the
\* undefined read RSTRING_PTR(Qnil) ends (a memory fault, or a pointer to
\* garbage); provider_ok says whether the provider accepts the request.
grpc_rb_channel_credentials_init(self, pem_root, pem_key, pem_chain, options_hash, fault, provider_ok) ==
    LET option_value == IF options_hash.given
                        THEN options_hash.checkServerIdentity ELSE Qnil
        userdata == IF option_value # Qnil THEN option_value ELSE CNULL
        ivars1 == IF option_value # Qnil
                  THEN [ivars[self] EXCEPT
                          !.check_server_identity_cb = option_value]
                  ELSE ivars[self]
        undefined_read == (pem_key = Qnil) # (pem_chain = Qnil)
        creds == IF provider_ok /\ Len(handles) < MaxHandles
                 THEN Len(handles) + 1 ELSE NULL
        pre == wrapped[self]
    IN
    /\ Running
    /\ UNCHANGED <<trampVars, rootVars>>
    /\ ostate[self] = "live"
    /\ self \in rooted
    /\ IF option_value # Qnil /\ ~OptionTypeOk(option_value)
       THEN \* rb_raise(rb_eTypeError, ...)
            /\ last' = Last("init", self, "TypeError", 0, <<>>, pre, pre,
                            <<>>, <<>>, <<>>)
            /\ UNCHANGED <<wrapped, ivars, handles, released, crashed>>
       ELSE IF undefined_read /\ fault
       THEN \* the read of a non-String faults: the process dies
            /\ crashed' = TRUE
            /\ ivars' = [ivars EXCEPT ![self] = ivars1]
            /\ last' = Last("init", self, "Crash", 0, <<>>, pre, pre,
                            <<>>, <<>>, <<>>)
            /\ UNCHANGED <<wrapped, handles, released>>
       ELSE IF creds = NULL
       THEN \* rb_raise(rb_eRuntimeError, "could not create ...")
            /\ ivars' = [ivars EXCEPT ![self] = ivars1]
            /\ last' = Last("init", self, "RuntimeError", 0, <<>>, pre, pre,
                            <<>>, <<>>, <<>>)
            /\ UNCHANGED <<wrapped, handles, released, crashed>>
       ELSE /\ handles' = Append(handles,
                              SslRequest(pem_root, pem_key, pem_chain, userdata))
            /\ released' = Append(released, 0)
            /\ wrapped' = [wrapped EXCEPT ![self] = creds]
            /\ ivars' = [ivars EXCEPT ![self] =
                            [ivars1 EXCEPT !.pem_cert_chain = pem_chain,
                                           !.pem_private_key = pem_key,
                                           !.pem_root_certs = pem_root]]
            /\ last' = Last("init", self, "ok", self, <<>>, pre,
                            creds, <<creds>>, <<>>, <<>>)
            /\ UNCHANGED crashed
    /\ UNCHANGED <<ostate, mark, rooted, ccstate, ccRooted>>

\* initialize_copy is bound to grpc_rb_cannot_init_copy, which raises
\* TypeError whatever the receiver and the original are.
grpc_rb_cannot_init_copy(copy, self) ==
    /\ Running
    /\ UNCHANGED <<trampVars, rootVars>>
    /\ ostate[copy] = "live" /\ copy \in rooted
    /\ ostate[self] = "live" /\ self \in rooted
    /\ last' = Last("init_copy", self, "TypeError", 0, <<>>, wrapped[self],
                    wrapped[self], <<>>, <<>>, <<>>)
    /\ UNCHANGED <<ostate, wrapped, mark, ivars, rooted, ccstate, ccRooted,
                   handles, released, crashed>>

\* ------------------------------------------------------------- compose
\* grpc_rb_get_wrapped_call_credentials(v): TypedData_Get_Struct accepts
\* only a CallCredentials object (TypeError otherwise) and yields its
\* wrapped grpc_call_credentials.
IsCallCredentials(v) == v[1] = "call"
grpc_rb_get_wrapped_call_credentials(v) == v[2]

\* grpc_rb_get_wrapped_channel_credentials(v): wrapper->wrapped.
grpc_rb_get_wrapped_channel_credentials(o) == wrapped[o]

\* Variant with a fault: the argc == 0 test is missing.
compose_no_args_missing(argc) == FALSE
\* Line 293: compose without arguments returns the receiver.
compose_no_args(argc) == argc = 0

\* Variant with a fault: prev starts as the receiver's handle.
compose_prev_init_creds(creds) == creds
\* Line 291: prev starts as NULL.
compose_prev_init(creds) == NULL

\* Variant with a fault: the receiver is not pushed onto the mark array.
compose_mark_init_empty(self) == <<>>
\* Lines 296-297: the mark array starts with the receiver.
compose_mark_init(self) == <<Chan(self)>>

\* Variant with a fault: every step composes the receiver's handle.
compose_step_input_base(creds, base) == base
\* Line 302: the channel credentials given to the provider are the running
\* creds, the result of the step before.
compose_step_input(creds, base) == creds

\* Lines 299-312: the loop body from argument i on.  st holds the locals
\* creds, prev and mark, the handles created (alloc) and released (rel) so
\* far, the provider calls made in order (<<"create", channel handle, call
\* credentials>> and <<"release", handle>>), and the exception raised
\* ("ok": none).
\* The provider rejects the composition of step fail_at (0: none).
RECURSIVE compose_loop(_, _, _, _)
compose_loop(i, argv, fail_at, st) ==
    IF i > Len(argv) THEN st
    ELSE
    LET mark1 == Append(st.mark, argv[i]) IN
    IF ~IsCallCredentials(argv[i])
    THEN [st EXCEPT !.mark = mark1, !.status = "TypeError"]
    ELSE
    LET other == grpc_rb_get_wrapped_call_credentials(argv[i])
        input == compose_step_input(st.creds, st.base)
        made == i # fail_at /\ Len(handles) + Len(st.alloc) < MaxHandles
        creds == IF made THEN Len(handles) + Len(st.alloc) + 1 ELSE NULL
        st1 == [creds |-> creds,
                base |-> st.base,
                prev |-> creds,
                mark |-> mark1,
                alloc |-> IF made
                          THEN Append(st.alloc, CompositeHandle(input, other))
                          ELSE st.alloc,
                rel |-> IF st.prev # NULL
                        THEN Append(st.rel, st.prev) ELSE st.rel,
                calls |-> Append(st.calls, <<"create", input, other>>)
                          \o (IF st.prev # NULL
                              THEN << <<"release", st.prev>> >> ELSE <<>>),
                status |-> IF creds = NULL THEN "RuntimeError" ELSE "ok"]
    IN IF creds = NULL THEN st1 ELSE compose_loop(i + 1, argv, fail_at, st1)

\* Argument lists a caller passes: the call credentials it references,
\* taken in turn, the last argument possibly a value of another class
\* (the loop stops at the first such value).
CredAt(i) ==
    LET k == ((i - 1) % Cardinality(ccRooted)) + 1
    IN Call(CHOOSE j \in ccRooted :
                Cardinality({x \in ccRooted : x <= j}) = k)
ArgLists ==
    {[i \in 1..n |-> CredAt(i)] :
        n \in {m \in 0..MaxExtras : m = 0 \/ ccRooted # {}}}
    \cup {[i \in 1..n |-> IF i = n THEN Other(1) ELSE CredAt(i)] :
            n \in {m \in 1..MaxExtras : m = 1 \/ ccRooted # {}}}

\* Variant with a fault: the result is stored in the receiver's wrapper.
wrap_reuses_self(self, n) == self
\* Line 126: grpc_rb_wrap_channel_credentials stores c and mark in a
\* wrapper n it allocates, never in the receiver of compose.
wrap_new_wrapper(self, n) == n

\* grpc_rb_wrap_channel_credentials(c, mark): Qnil for NULL, else a new
\* wrapper holding c and mark.
\* grpc_rb_channel_credentials_compose(argc, argv, self).
grpc_rb_channel_credentials_compose(self, argv, fail_at) ==
    LET pre == wrapped[self]
        st0 == [creds |-> grpc_rb_get_wrapped_channel_credentials(self),
                base |-> grpc_rb_get_wrapped_channel_credentials(self),
                prev |-> compose_prev_init(
                            grpc_rb_get_wrapped_channel_credentials(self)),
                mark |-> compose_mark_init(self),
                alloc |-> <<>>, rel |-> <<>>, calls |-> <<>>,
                status |-> "ok"]
    IN
    /\ Running
    /\ UNCHANGED <<trampVars, rootVars>>
    /\ ostate[self] = "live"
    /\ self \in rooted
    /\ IF compose_no_args(Len(argv))
       THEN /\ last' = Last("compose", self, "ok", self, argv, pre, pre,
                            <<>>, <<>>, <<>>)
            /\ UNCHANGED <<ostate, wrapped, mark, rooted, handles, released>>
       ELSE \* wrapper->wrapped is not tested: a receiver that was never
            \* initialised hands NULL to the provider.
            \* st: the locals when the loop of lines 299-312 is left
            \E st \in {compose_loop(1, argv, fail_at, st0)} :
            LET created == [k \in 1..Len(st.alloc) |-> Len(handles) + k] IN
            /\ handles' = handles \o st.alloc
            /\ released' = ReleaseAll(released \o [k \in 1..Len(st.alloc) |-> 0],
                                      st.rel)
            /\ IF st.status # "ok" \/ st.creds = NULL
               THEN /\ last' = Last("compose", self, st.status, 0, argv, pre,
                                    pre, created, st.rel, st.calls)
                    /\ UNCHANGED <<ostate, wrapped, mark, rooted>>
               ELSE \E n \in Owners :
                    LET w == wrap_new_wrapper(self, n) IN
                    /\ ostate[n] = "unalloc"
                    /\ \A p \in Owners : p < n => ostate[p] # "unalloc"
                    /\ ostate' = [ostate EXCEPT ![w] = "live"]
                    /\ wrapped' = [wrapped EXCEPT ![w] = st.creds]
                    /\ mark' = [mark EXCEPT ![w] = st.mark]
                    /\ rooted' = rooted \cup {w}
                    /\ last' = Last("compose", self, "ok", w, argv, pre, pre,
                                    created, st.rel, st.calls)
    /\ UNCHANGED <<ivars, ccstate, ccRooted, crashed>>

\* ------------------------------------------------------------ collector
\* The application drops its reference to an owner.
DropOwner(o) ==
    /\ Running
    /\ UNCHANGED <<trampVars, rootVars>>
    /\ o \in rooted
    /\ rooted' = rooted \ {o}
    /\ UNCHANGED <<ostate, wrapped, mark, ivars, ccstate, ccRooted, handles,
                   released, crashed, last>>

\* grpc_rb_channel_credentials_free(p), run by the collector on a wrapper
\* nothing references any more.
grpc_rb_channel_credentials_free(o) ==
    /\ Running
    /\ UNCHANGED <<trampVars, rootVars>>
    /\ ostate[o] = "live"
    /\ o \notin ReachableOwners
    /\ released' = grpc_channel_credentials_release(released, wrapped[o])
    /\ wrapped' = [wrapped EXCEPT ![o] = NULL]
    /\ ostate' = [ostate EXCEPT ![o] = "freed"]
    /\ mark' = [mark EXCEPT ![o] = <<>>]
    /\ ivars' = [ivars EXCEPT ![o] = NoIvars]
    /\ UNCHANGED <<rooted, ccstate, ccRooted, handles, crashed, last>>

\* The application drops its reference to a call credentials object.
DropCall(j) ==
    /\ Running
    /\ UNCHANGED <<trampVars, rootVars>>
    /\ j \in ccRooted
    /\ ccRooted' = ccRooted \ {j}
    /\ UNCHANGED <<ostate, wrapped, mark, ivars, rooted, ccstate, handles,
                   released, crashed, last>>

\* The collector reclaims a call credentials object nothing references,
\* which releases its grpc_call_credentials.
FreeCall(j) ==
    /\ Running
    /\ UNCHANGED <<trampVars, rootVars>>
    /\ ccstate[j] = "live"
    /\ j \notin ReachableCalls
    /\ ccstate' = [ccstate EXCEPT ![j] = "freed"]
    /\ UNCHANGED <<ostate, wrapped, mark, ivars, rooted, ccRooted, handles,
                   released, crashed, last>>

\* Argument lists given to ChannelCredentials#initialize: no argument, a
\* full key pair with roots and a Proc, a private key without a chain and
\* a Symbol, a chain without a private key and an options hash without the
\* key, and an option of a wrong class.
WithOption(v) == [given |-> TRUE, checkServerIdentity |-> v]
InitArgLists ==
    {<<Qnil, Qnil, Qnil, NoOptions>>,
     <<"ROOT", "KEY", "CHAIN", WithOption(ProcA)>>,
     <<Qnil, "KEY", Qnil, WithOption(SymB)>>,
     <<Qnil, Qnil, "CHAIN", WithOption(Qnil)>>,
     <<"ROOT", Qnil, Qnil, WithOption(NotCallable)>>}

\* The call returns (or its exception is handled) and the caller goes on.
ReturnToCaller ==
    /\ UNCHANGED <<trampVars, rootVars>>
    /\ ~crashed
    /\ last.op # "none"
    /\ last' = NoCall
    /\ UNCHANGED <<ostate, wrapped, mark, ivars, rooted, ccstate, ccRooted,
                   handles, released, crashed>>

\* ChannelCredentials#initialize called with one of the argument lists.
InitCall(arglists) ==
    \E self \in Owners, a \in arglists, fault \in BOOLEAN,
       provider_ok \in BOOLEAN :
       grpc_rb_channel_credentials_init(self, a[1], a[2], a[3], a[4],
                                        fault, provider_ok)

\* Construction, reinitialisation, copying and collection of owners, over
\* every argument list.
NextInit ==
    \/ \E o \in Owners : grpc_rb_channel_credentials_alloc(o)
    \/ InitCall(InitArgLists)
    \/ \E copy \in Owners, self \in Owners :
          grpc_rb_cannot_init_copy(copy, self)
    \/ ReturnToCaller
    \/ \E o \in Owners : DropOwner(o)
    \/ \E o \in Owners : grpc_rb_channel_credentials_free(o)

\* Construction, reinitialisation, composition and collection: initialize
\* without arguments and compose with every argument list, on every
\* receiver, one that was never initialised included.  A call is made
\* when no call is waiting to return (the guard Running of every action).
NextCompose ==
    \/ ReturnToCaller
    \/ /\ Running
       /\ \/ \E o \in Owners : grpc_rb_channel_credentials_alloc(o)
          \/ InitCall({<<Qnil, Qnil, Qnil, NoOptions>>})
          \/ \E self \in Owners, argv \in ArgLists :
                \E fail_at \in 0..Len(argv) :
                   grpc_rb_channel_credentials_compose(self, argv, fail_at)
          \/ \E o \in Owners : DropOwner(o)
          \/ \E o \in Owners : grpc_rb_channel_credentials_free(o)

\* Calls of compose with every argument list on every receiver, one that
\* was never initialised or was initialised again included, the owners
\* staying referenced.
NextComposeCalls ==
    \/ ReturnToCaller
    \/ /\ Running
       /\ \/ \E o \in Owners : grpc_rb_channel_credentials_alloc(o)
          \/ InitCall({<<Qnil, Qnil, Qnil, NoOptions>>})
          \/ \E self \in Owners, argv \in ArgLists :
                \E fail_at \in 0..Len(argv) :
                   grpc_rb_channel_credentials_compose(self, argv, fail_at)

\* Compositions of call credentials the provider accepts, on every
\* receiver, one that was never initialised or was initialised again
\* included, the call credentials being dropped and collected too.
NextKeepAlive ==
    \/ ReturnToCaller
    \/ /\ Running
       /\ \/ \E o \in Owners : grpc_rb_channel_credentials_alloc(o)
          \/ InitCall({<<Qnil, Qnil, Qnil, NoOptions>>})
          \/ \E self \in Owners, argv \in ArgLists :
                /\ \A i \in 1..Len(argv) : IsCallCredentials(argv[i])
                /\ grpc_rb_channel_credentials_compose(self, argv, 0)
          \/ \E o \in Owners : DropOwner(o)
          \/ \E o \in Owners : grpc_rb_channel_credentials_free(o)
          \/ \E j \in CallCreds : DropCall(j)
          \/ \E j \in CallCreds : FreeCall(j)

\* Argument lists with a checkServerIdentity option: a Proc with a full key
\* pair, a Symbol without PEM text, and a value of a wrong class.
OptionArgLists ==
    {<<"ROOT", "KEY", "CHAIN", WithOption(ProcA)>>,
     <<Qnil, Qnil, Qnil, WithOption(SymB)>>,
     <<"ROOT", Qnil, Qnil, WithOption(NotCallable)>>}

\* Construction with a checkServerIdentity option, and collection.
NextOption ==
    \/ \E o \in Owners : grpc_rb_channel_credentials_alloc(o)
    \/ InitCall(OptionArgLists)
    \/ ReturnToCaller
    \/ \E o \in Owners : DropOwner(o)
    \/ \E o \in Owners : grpc_rb_channel_credentials_free(o)

\* ------------------------------------------------ verification trampoline
Threads == 1..NumThreads

\* Exceptions a callable may raise.  rb_rescue handles StandardError and
\* its subclasses only.
ErrorKinds == {"StandardError", "RuntimeError", "NotImplementedError",
               "Exception"}
IsStandardError(e) == e \in {"StandardError", "RuntimeError"}

NoParams == [servername |-> CNULL, cert |-> CNULL, userdata |-> CNULL]

InitTramp ==
    /\ pc = [t \in Threads |-> "idle"]
    /\ params = [t \in Threads |-> NoParams]
    /\ passthrough = [t \in Threads |-> <<>>]
    /\ gvl = 0
    /\ outcome = [t \in Threads |-> "none"]
    /\ rb_result = [t \in Threads |-> 0]
    /\ ret = [t \in Threads |-> 0]

\* Variant with a fault: params is one static struct all invocations use.
params_static(t) == 1
\* Line 196: params is a local of the invocation, one per thread.
params_local(t) == t

\* Variant with a fault: the userdata is not tested.
userdata_not_tested(userdata) == FALSE
\* Line 197: userdata == NULL.
userdata_is_null(userdata) == userdata = CNULL

\* The provider calls verify_peer_callback_wrapper(servername, cert,
\* userdata) on a thread that does not hold the lock.  Lines 197-204: a
\* NULL userdata returns 1 at once; otherwise params is filled and
\* rb_thread_call_with_gvl is entered.
verify_peer_callback_wrapper(t, servername, cert, userdata) ==
    /\ UNCHANGED <<ownerVars, rootVars>>
    /\ pc[t] = "idle"
    /\ gvl # t
    /\ params' = [params EXCEPT ![params_local(t)] =
                                 [servername |-> servername,
                                  cert |-> cert,
                                  userdata |-> userdata]]
    /\ outcome' = [outcome EXCEPT ![t] = "none"]
    /\ IF userdata_is_null(userdata)
       THEN /\ pc' = [pc EXCEPT ![t] = "returned"]
            /\ ret' = [ret EXCEPT ![t] = 1]
       ELSE /\ pc' = [pc EXCEPT ![t] = "wait_gvl"]
            /\ UNCHANGED ret
    /\ UNCHANGED <<passthrough, gvl, rb_result>>

\* Variant with a fault: the callback is run without waiting for the lock.
gvl_not_awaited(holder) == TRUE
\* Line 206: rb_thread_call_with_gvl goes on only once nobody holds the
\* lock.
gvl_available(holder) == holder = 0

\* rb_thread_call_with_gvl: blocks until the lock is free, takes it, then
\* runs invoke_rb_verify_callback_with_gvl.
rb_thread_call_with_gvl(t) ==
    /\ UNCHANGED <<ownerVars, rootVars>>
    /\ pc[t] = "wait_gvl"
    /\ gvl_available(gvl)
    /\ gvl' = t
    /\ pc' = [pc EXCEPT ![t] = "with_gvl"]
    /\ UNCHANGED <<params, passthrough, outcome, rb_result, ret>>

\* Lines 188-189: a C string becomes a Ruby String, NULL becomes nil.
rb_str_or_nil(cstr) == IF cstr # CNULL THEN cstr ELSE Qnil

\* Lines 186-191: the passthrough array is built and rb_rescue entered.
invoke_rb_verify_callback_with_gvl(t) ==
    /\ UNCHANGED <<ownerVars, rootVars>>
    /\ pc[t] = "with_gvl"
    /\ passthrough' = [passthrough EXCEPT ![t] =
                          <<params[params_local(t)].userdata,
                            rb_str_or_nil(params[params_local(t)].servername),
                            rb_str_or_nil(params[params_local(t)].cert)>>]
    /\ pc' = [pc EXCEPT ![t] = "try"]
    /\ UNCHANGED <<params, gvl, outcome, rb_result, ret>>

\* Lines 158-169: a Proc is sent "call", a Symbol names a method sent to
\* its class, anything else makes the wrapper return 1.
verify_peer_callback_try_wrapper(t) ==
    /\ UNCHANGED <<ownerVars, rootVars>>
    /\ pc[t] = "try"
    /\ IF rb_class_of(passthrough[t][1]) \in {"Proc", "Symbol"}
       THEN /\ pc' = [pc EXCEPT ![t] = "callable"]
            /\ UNCHANGED rb_result
       ELSE /\ pc' = [pc EXCEPT ![t] = "have_result"]
            /\ rb_result' = [rb_result EXCEPT ![t] = 1]
    /\ UNCHANGED <<params, passthrough, gvl, outcome, ret>>

\* Line 170: what the try wrapper returns once rb_funcall has returned
\* value v.
try_wrapper_result(v) == 0

\* The callable returns v; the try wrapper returns INT2NUM(0).
callable_returns(t, v) ==
    /\ UNCHANGED <<ownerVars, rootVars>>
    /\ pc[t] = "callable"
    /\ outcome' = [outcome EXCEPT ![t] = IF v THEN "truthy" ELSE "falsy"]
    /\ rb_result' = [rb_result EXCEPT ![t] = try_wrapper_result(v)]
    /\ pc' = [pc EXCEPT ![t] = "have_result"]
    /\ UNCHANGED <<params, passthrough, gvl, ret>>

\* The callable raises e.  rb_rescue runs verify_peer_callback_catch_wrapper
\* (result 1) for a StandardError; any other exception leaves
\* rb_rescue, invoke_rb_verify_callback_with_gvl, rb_thread_call_with_gvl
\* and the trampoline by a non-local exit, the lock still held.
callable_raises(t, e) ==
    /\ UNCHANGED <<ownerVars, rootVars>>
    /\ pc[t] = "callable"
    /\ outcome' = [outcome EXCEPT ![t] = e]
    /\ IF IsStandardError(e)
       THEN /\ rb_result' = [rb_result EXCEPT ![t] = 1]
            /\ pc' = [pc EXCEPT ![t] = "have_result"]
       ELSE /\ pc' = [pc EXCEPT ![t] = "escaped"]
            /\ UNCHANGED rb_result
    /\ UNCHANGED <<params, passthrough, gvl, ret>>

\* The exception goes on propagating in the managed runtime, which runs
\* the thread's Ruby frames and hands the lock on at its next thread
\* switch; the invocation never returns to the provider.
exception_propagates(t) ==
    /\ UNCHANGED <<ownerVars, rootVars>>
    /\ pc[t] = "escaped"
    /\ gvl' = 0
    /\ pc' = [pc EXCEPT ![t] = "unwound"]
    /\ UNCHANGED <<params, passthrough, outcome, rb_result, ret>>

\* Lines 192 and 206: NULL for result 0, else arg; the lock is given back
\* and the wrapper returns 0 for NULL, else 1.
return_to_provider(t) ==
    /\ UNCHANGED <<ownerVars, rootVars>>
    /\ pc[t] = "have_result"
    /\ gvl' = 0
    /\ ret' = [ret EXCEPT ![t] = IF rb_result[t] = 0 THEN 0 ELSE 1]
    /\ pc' = [pc EXCEPT ![t] = "returned"]
    /\ UNCHANGED <<params, passthrough, outcome, rb_result>>

\* The provider has read the decision; the thread may be used again.
provider_continues(t) ==
    /\ UNCHANGED <<ownerVars, rootVars>>
    /\ pc[t] = "returned"
    /\ pc' = [pc EXCEPT ![t] = "idle"]
    /\ params' = [params EXCEPT ![t] = NoParams]
    /\ passthrough' = [passthrough EXCEPT ![t] = <<>>]
    /\ outcome' = [outcome EXCEPT ![t] = "none"]
    /\ rb_result' = [rb_result EXCEPT ![t] = 0]
    /\ ret' = [ret EXCEPT ![t] = 0]
    /\ UNCHANGED gvl

\* Arguments of an invocation: the native strings, both NULL or both set,
\* and the userdata.
NativeArgs == {<<CNULL, CNULL>>, <<"example.com", "PEM">>}
Userdata == {CNULL, ProcA, SymB, NotCallable}

NextTramp ==
    \/ \E t \in Threads, a \in NativeArgs, u \in Userdata :
          verify_peer_callback_wrapper(t, a[1], a[2], u)
    \/ \E t \in Threads : rb_thread_call_with_gvl(t)
    \/ \E t \in Threads : invoke_rb_verify_callback_with_gvl(t)
    \/ \E t \in Threads : verify_peer_callback_try_wrapper(t)
    \/ \E t \in Threads, v \in BOOLEAN : callable_returns(t, v)
    \/ \E t \in Threads, e \in ErrorKinds : callable_raises(t, e)
    \/ \E t \in Threads : exception_propagates(t)
    \/ \E t \in Threads : return_to_provider(t)
    \/ \E t \in Threads : provider_continues(t)

\* ------------------------------------------------------ default roots
\* Content of a buffer gpr_malloc has returned and nothing was copied to.
Uninit == "uninit"
\* PEM texts given to set_default_roots_pem.
RootTexts == {"ROOT-A", "ROOT-B", "ROOT-C"}

NoOverride == [pc |-> "idle", ptr |-> NULL, found |-> FALSE, text |-> CNULL]

InitRoots ==
    /\ pem_root_certs = NULL
    /\ heap = <<>>
    /\ setting = CNULL
    /\ override = NoOverride
    /\ last_roots = CNULL

\* Variant with a fault: the text is copied into the buffer in use.
roots_buffer_reuse(p, n) == IF p = NULL THEN n + 1 ELSE p
\* Line 330: gpr_malloc returns a buffer distinct from the n it returned
\* before; the buffer in use is not touched.
roots_buffer_new(p, n) == n + 1

\* Variant with a fault: the pointer is only written while it is NULL.
roots_publish_once(old, new) == IF old = NULL THEN new ELSE old
\* Line 330: the static pointer is overwritten.
roots_publish(old, new) == new

\* The heap after buffer b received the content c.
Store(hp, b, c) == IF b > Len(hp) THEN Append(hp, c) ELSE [hp EXCEPT ![b] = c]

\* What the provider reads through a pointer the hook returned.
TextAt(ptr) == IF ptr = NULL THEN CNULL ELSE heap[ptr]

\* grpc_rb_set_default_roots_pem(self, roots), run without interruption.
\* StringValueCStr raises TypeError for a value that is not a String and
\* nothing is changed.
grpc_rb_set_default_roots_pem(roots) ==
    LET b == roots_buffer_new(pem_root_certs, Len(heap)) IN
    /\ UNCHANGED <<ownerVars, trampVars>>
    /\ Running
    /\ setting = CNULL
    /\ IF roots \notin RootTexts
       THEN UNCHANGED <<pem_root_certs, heap, last_roots>>
       ELSE /\ Len(heap) < MaxBuffers
            /\ pem_root_certs' = roots_publish(pem_root_certs, b)
            /\ heap' = Store(Store(heap, b, Uninit), b, roots)
            /\ last_roots' = roots
    /\ UNCHANGED <<setting, override>>

\* get_ssl_roots_override(pem_root_certs_ptr), run without interruption,
\* the provider then reading the text it was pointed to.
get_ssl_roots_override ==
    LET r == roots_override_result(pem_root_certs, pem_root_certs) IN
    /\ UNCHANGED <<ownerVars, trampVars>>
    /\ override.pc \in {"idle", "done"}
    /\ override' = [pc |-> "done", ptr |-> r.ptr, found |-> r.found,
                    text |-> TextAt(r.ptr)]
    /\ UNCHANGED <<pem_root_certs, heap, setting, last_roots>>

\* Lines 327-330 of grpc_rb_set_default_roots_pem: the C string is taken,
\* a buffer is allocated and its address stored in pem_root_certs.
set_default_roots_pem_malloc(roots) ==
    LET b == roots_buffer_new(pem_root_certs, Len(heap)) IN
    /\ UNCHANGED <<ownerVars, trampVars>>
    /\ Running
    /\ setting = CNULL
    /\ roots \in RootTexts
    /\ Len(heap) < MaxBuffers
    /\ pem_root_certs' = roots_publish(pem_root_certs, b)
    /\ heap' = Store(heap, b, Uninit)
    /\ setting' = roots
    /\ UNCHANGED <<override, last_roots>>

\* Lines 331-332: the text is copied into the buffer pem_root_certs points
\* to and the call returns.
set_default_roots_pem_memcpy ==
    /\ UNCHANGED <<ownerVars, trampVars>>
    /\ setting # CNULL
    /\ heap' = Store(heap, pem_root_certs, setting)
    /\ last_roots' = setting
    /\ setting' = CNULL
    /\ UNCHANGED <<pem_root_certs, override>>

\* Line 318 of get_ssl_roots_override, on a thread of the provider: the
\* pointer is read and stored through pem_root_certs_ptr.
get_ssl_roots_override_store ==
    /\ UNCHANGED <<ownerVars, trampVars>>
    /\ override.pc \in {"idle", "done"}
    /\ override' = [pc |-> "stored", ptr |-> pem_root_certs,
                    found |-> FALSE, text |-> CNULL]
    /\ UNCHANGED <<pem_root_certs, heap, setting, last_roots>>

\* Lines 319-323: the pointer is compared with NULL, the hook returns, and
\* the provider reads the text it was pointed to.  Nothing orders the
\* reads of the static against the writer, so the build decides whether
\* line 319 tests the value loaded at line 318 or loads the static again;
\* p2 ranges over both.
get_ssl_roots_override_return ==
    \E p2 \in {override.ptr, pem_root_certs} :
       LET r == roots_override_result(override.ptr, p2) IN
       /\ UNCHANGED <<ownerVars, trampVars>>
       /\ override.pc = "stored"
       /\ override' = [pc |-> "done", ptr |-> r.ptr, found |-> r.found,
                       text |-> TextAt(r.ptr)]
       /\ UNCHANGED <<pem_root_certs, heap, setting, last_roots>>

\* Values a caller passes to set_default_roots_pem.
RootsArgs == RootTexts \cup {Qnil}

\* set_default_roots_pem on a Ruby thread while a thread of the provider
\* calls the override hook, their steps interleaved.
NextRootsRace ==
    \/ \E roots \in RootsArgs : set_default_roots_pem_malloc(roots)
    \/ set_default_roots_pem_memcpy
    \/ get_ssl_roots_override_store
    \/ get_ssl_roots_override_return

\* Calls of set_default_roots_pem and of the override hook, one at a time.
NextRoots ==
    \/ \E roots \in RootsArgs : grpc_rb_set_default_roots_pem(roots)
    \/ get_ssl_roots_override

\* Calls of set_default_roots_pem and constructions without explicit
\* roots, one at a time.
NextDefaultRoots ==
    \/ \E roots \in {"ROOT-A", "ROOT-B"} : grpc_rb_set_default_roots_pem(roots)
    \/ \E o \in Owners : grpc_rb_channel_credentials_alloc(o)
    \/ InitCall({<<Qnil, Qnil, Qnil, NoOptions>>})
    \/ ReturnToCaller

Init == InitOwners /\ InitTramp /\ InitRoots

SpecInit == Init /\ [][NextInit]_vars
SpecCompose == Init /\ [][NextCompose]_vars
SpecComposeCalls == Init /\ [][NextComposeCalls]_vars
SpecKeepAlive == Init /\ [][NextKeepAlive]_vars
SpecTrampoline == Init /\ [][NextTramp]_vars
\* Scheduling: the lock is granted fairly to a thread that waits for it,
\* a thread that holds the lock goes on, and a callable returns or raises
\* after finitely many steps.
FairTramp ==
    \A t \in Threads :
        /\ SF_vars(rb_thread_call_with_gvl(t))
        /\ WF_vars(invoke_rb_verify_callback_with_gvl(t))
        /\ WF_vars(verify_peer_callback_try_wrapper(t))
        /\ WF_vars((\E v \in BOOLEAN : callable_returns(t, v))
                      \/ (\E e \in ErrorKinds : callable_raises(t, e)))
        /\ WF_vars(exception_propagates(t))
        /\ WF_vars(return_to_provider(t))
SpecTrampolineFair == Init /\ [][NextTramp]_vars /\ FairTramp
SpecOption == Init /\ [][NextOption]_vars
SpecRoots == Init /\ [][NextRoots]_vars
SpecDefaultRoots == Init /\ [][NextDefaultRoots]_vars
SpecRootsRace == Init /\ [][NextRootsRace]_vars

\* ================================================================ claims

\* C1: whenever the trampoline has returned for a present binding whose
\* callable returned without raising, the decision is accept (0) if the
\* callable returned a truthy value and reject (1) if it returned a
\* failure indicator.
C1_ReturnValueDecides ==
    \A t \in Threads :
        (pc[t] = "returned" /\ params[t].userdata # CNULL
            /\ outcome[t] \in {"truthy", "falsy"})
        => ret[t] = (IF outcome[t] = "truthy" THEN 0 ELSE 1)

\* C2: whenever the bound callable has raised an error of any kind, the
\* error has not left the trampoline by a non-local exit, and once the
\* trampoline has returned the decision is reject (1).
C2_AnyRaiseRejects ==
    \A t \in Threads :
        outcome[t] \in ErrorKinds
        => /\ pc[t] # "escaped"
           /\ (pc[t] = "returned" => ret[t] = 1)

\* Positions at which a thread reads or creates managed values.
ManagedPcs == {"with_gvl", "try", "callable", "have_result"}

\* C9: a thread touches managed values and runs the callable only while it
\* holds the lock, at most one thread executes a callable at a time, and a
\* thread that is in native code (not yet inside rb_thread_call_with_gvl,
\* or returned from the trampoline on any path: callable returned, callable
\* raised, binding absent) does not hold the lock.
C9_LockDiscipline ==
    /\ \A t \in Threads : pc[t] \in ManagedPcs => gvl = t
    /\ Cardinality({t \in Threads : pc[t] = "callable"}) <= 1
    /\ \A t \in Threads :
          pc[t] \in {"idle", "wait_gvl", "returned"} => gvl # t

\* C9 witness: one thread has returned 1 after its callable raised and was
\* rescued, and no longer holds the lock that another thread now holds
\* while running its callable.
C9_Witness ==
    \E t1 \in Threads, t2 \in Threads :
        /\ pc[t1] = "returned" /\ IsStandardError(outcome[t1]) /\ ret[t1] = 1
        /\ pc[t2] = "callable" /\ gvl = t2

\* The error of the specification's taxonomy a call ended with.
ErrorClass(call) ==
    CASE call.status = "ok" -> "none"
      [] call.op = "init_copy" /\ call.status = "TypeError"
           -> "IllegalReinitialization"
      [] call.op = "init" /\ call.status = "TypeError" -> "InvalidArgument"
      [] call.op = "init" /\ call.status = "RuntimeError"
           -> "CredentialCreationFailed"
      [] call.op = "compose" /\ call.status = "RuntimeError"
           -> "CompositionFailed"
      [] OTHER -> call.status

\* C3: the constructor called on an owner that already holds a handle, and
\* the copy operation, fail with IllegalReinitialization, leave the handle
\* as it was and create no provider handle.
C3_ReinitRejected ==
    (last.op \in {"init", "init_copy"} /\ last.pre # NULL)
    => /\ ErrorClass(last) = "IllegalReinitialization"
       /\ last.post = last.pre
       /\ wrapped[last.self] = last.pre
       /\ last.allocated = <<>>
       /\ last.rel = <<>>

\* C10: no owner holds a handle that the provider created from a key pair
\* with an undefined private key or certificate chain.
C10_NoUndefinedKeyPair ==
    \A o \in Owners :
        wrapped[o] # NULL
        => /\ handles[wrapped[o]].private_key # Garbage
           /\ handles[wrapped[o]].cert_chain # Garbage

\* C4: two distinct owners never hold the same handle, and no handle has
\* been released more than once.
C4_OneOwnerOneRelease ==
    /\ \A o1 \in Owners, o2 \in Owners :
          (o1 # o2 /\ wrapped[o1] # NULL) => wrapped[o1] # wrapped[o2]
    /\ \A h \in 1..Len(handles) : released[h] <= 1

\* C4 witness: compose(owner, [c1, c2]) built handle 3 from the intermediate
\* handle 2 over the owner's handle 1; the result and the owner have both
\* been finalized, and each handle was released once.
C4_Witness ==
    /\ Len(handles) = 3
    /\ handles[1].kind = "ssl"
    /\ handles[2].kind = "composite" /\ handles[2].chan = 1
    /\ handles[3].kind = "composite" /\ handles[3].chan = 2
    /\ handles[2].call # handles[3].call
    /\ \A o \in Owners : ostate[o] = "freed"
    /\ \A h \in 1..3 : released[h] = 1

\* C5: once every owner has been finalized, every handle the provider
\* created has been released exactly once.
C5_NoLeak ==
    (\A o \in Owners : ostate[o] # "live")
    => \A h \in 1..Len(handles) : released[h] = 1

\* C6: when compose has failed, every handle it allocated has already been
\* released, no owner is returned and the handle of the base has not been
\* released.
C6_FailedComposeReleased ==
    (last.op = "compose" /\ last.status # "ok")
    => /\ \A h \in Range(last.allocated) : released[h] = 1
       /\ last.result = 0
       /\ last.pre # NULL => released[last.pre] = 0
       /\ wrapped[last.self] = last.pre

\* C7: a step that calls compose with no extras returns the receiver and
\* changes neither an owner nor the provider: no composition call, no
\* handle created, no handle released.
C7_EmptyComposeIsIdentity ==
    [][(last.op = "none" /\ last'.op = "compose" /\ last'.argv = <<>>)
       => /\ last'.status = "ok"
          /\ last'.result = last'.self
          /\ last'.calls = <<>>
          /\ UNCHANGED <<ostate, wrapped, mark, ivars, rooted, handles,
                         released>>]_vars

\* C7 witness: compose() without extras has returned on an owner that
\* holds a handle.
C7_Witness ==
    /\ last.op = "compose" /\ last.argv = <<>>
    /\ last.pre # NULL /\ wrapped[last.result] = last.pre

\* C8: right after a successful compose with at least one extra, the mark
\* of the result holds the base and every extra; and no object in the mark
\* of an owner the collector can still reach has been finalized.
C8_MarkKeepsInputsAlive ==
    /\ (last.op = "compose" /\ last.status = "ok" /\ Len(last.argv) >= 1)
       => /\ Chan(last.self) \in grpc_rb_channel_credentials_mark(last.result)
          /\ Range(last.argv)
                \subseteq grpc_rb_channel_credentials_mark(last.result)
    /\ \A o \in ReachableOwners :
          \A m \in grpc_rb_channel_credentials_mark(o) :
             /\ m[1] = "chan" => ostate[m[2]] = "live"
             /\ m[1] = "call" => ccstate[m[2]] = "live"

\* C8 witness: a composite the application still references keeps alive a
\* base and a call credentials object the application has dropped, while
\* another call credentials object has been reclaimed.
C8_Witness ==
    \E o \in rooted :
        /\ \E b \in Owners :
              /\ Chan(b) \in grpc_rb_channel_credentials_mark(o)
              /\ b \notin rooted /\ wrapped[b] # NULL
        /\ \E j \in CallCreds :
              /\ Call(j) \in grpc_rb_channel_credentials_mark(o)
              /\ j \notin ccRooted
        /\ \E k \in CallCreds : ccstate[k] = "freed"

\* C11: a checkServerIdentity option that is neither a Proc nor a Symbol is
\* never registered with the provider nor recorded on an owner, and the
\* construct call that was given it fails with InvalidArgument without
\* changing a handle, a keep-alive set or the provider.
C11_BadOptionNoEffect ==
    /\ [](/\ \A h \in 1..Len(handles) :
                handles[h].userdata \in {CNULL, ProcA, SymB}
          /\ \A o \in Owners :
                ivars[o].check_server_identity_cb \in {Qnil, ProcA, SymB}
          /\ (last.op = "init" /\ last.status = "TypeError")
                => /\ ErrorClass(last) = "InvalidArgument"
                   /\ last.allocated = <<>> /\ last.post = last.pre)
    /\ [][(last.op = "none" /\ last'.op = "init"
             /\ last'.status = "TypeError")
          => UNCHANGED <<ostate, wrapped, mark, ivars, rooted, handles,
                         released>>]_vars

\* C11 witness: construct with an option of a wrong class has failed on a
\* fresh owner, whose handle is absent and which records no callback, the
\* provider never having been called.
C11_Witness ==
    /\ last.op = "init" /\ last.status = "TypeError"
    /\ last.pre = NULL /\ wrapped[last.self] = NULL
    /\ ivars[last.self].check_server_identity_cb = Qnil
    /\ handles = <<>>

\* C12: when set_default_roots_pem and the override hook are called one at
\* a time, a call of the hook reports found=false while no
\* set_default_roots_pem call has completed, and otherwise found=true with
\* the text given to the most recent such call.
C12_LastWriteWins ==
    [][(override' # override /\ override'.pc = "done")
       => IF last_roots = CNULL
          THEN ~override'.found
          ELSE override'.found /\ override'.text = last_roots]_vars

\* C12 witness: the hook reported "ROOT-B", the text of the second call,
\* which replaced "ROOT-A".
C12_Witness ==
    /\ override.pc = "done" /\ override.found /\ override.text = "ROOT-B"
    /\ Len(heap) >= 2 /\ heap[1] = "ROOT-A"

\* The default root text a handle uses (CNULL: none).
RootTextOf(h) == TextAt(handles[h].default_roots)

\* C13: a credential constructed without explicit roots uses the text of
\* the most recent set_default_roots_pem call; and no step, a later
\* set_default_roots_pem included, changes the root text of a credential
\* already constructed or the content of a buffer already allocated.
C13_RootsReadAtConstruction ==
    /\ []((last.op = "init" /\ last.status = "ok"
             /\ handles[last.post].roots = CNULL)
          => RootTextOf(last.post) = last_roots)
    /\ [][/\ \A h \in 1..Len(handles) : RootTextOf(h)' = RootTextOf(h)
          /\ \A b \in 1..Len(heap) : heap'[b] = heap[b]]_vars

\* C13 witness: an owner constructed after set_default_roots_pem("ROOT-A")
\* still uses "ROOT-A" while an owner constructed after
\* set_default_roots_pem("ROOT-B") uses "ROOT-B".
C13_Witness ==
    \E o1 \in Owners, o2 \in Owners :
        /\ wrapped[o1] # NULL /\ wrapped[o2] # NULL
        /\ wrapped[o1] < wrapped[o2]
        /\ RootTextOf(wrapped[o1]) = "ROOT-A"
        /\ RootTextOf(wrapped[o2]) = "ROOT-B"
        /\ last_roots = "ROOT-B"

\* C14: an invocation of the trampoline with a NULL userdata returns 1 in
\* the step that makes it, without taking the lock, building a managed
\* value or calling a callable; and a thread invoked with a NULL userdata
\* is never found waiting for the lock or inside the managed section.
C14_NullBindingRejects ==
    /\ [](\A t \in Threads :
            (pc[t] # "idle" /\ params[t].userdata = CNULL)
            => /\ pc[t] = "returned" /\ ret[t] = 1
               /\ gvl # t
               /\ passthrough[t] = <<>>
               /\ outcome[t] = "none")
    /\ [][\A t \in Threads :
            (pc[t] = "idle" /\ pc'[t] # "idle"
               /\ params'[t].userdata = CNULL)
            => gvl' = gvl /\ passthrough' = passthrough]_vars

\* C14 witness: a thread invoked with a NULL userdata has returned 1 while
\* another thread holds the lock and runs its callable.
C14_Witness ==
    \E t1 \in Threads, t2 \in Threads :
        /\ pc[t1] = "returned" /\ params[t1].userdata = CNULL
        /\ ret[t1] = 1
        /\ pc[t2] = "callable" /\ gvl = t2

\* The Ruby value v keeps alive what the C pointer cptr points to: cptr
\* points to no String, or to the text of v.
Keeps(v, cptr) == cptr \in {CNULL, Garbage} \/ v = cptr

\* C15: every owner that holds a handle made by the constructor keeps in
\* its hidden instance variables the PEM Strings whose text the provider
\* was given for that handle and, when a callback was registered, the very
\* Proc or Symbol registered as the callback userdata.
C15_InputsKeptAlive ==
    \A o \in Owners :
        (wrapped[o] # NULL /\ handles[wrapped[o]].kind = "ssl")
        => LET h == handles[wrapped[o]] IN
           /\ Keeps(ivars[o].pem_root_certs, h.roots)
           /\ Keeps(ivars[o].pem_private_key, h.private_key)
           /\ Keeps(ivars[o].pem_cert_chain, h.cert_chain)
           /\ h.userdata # CNULL
                 => ivars[o].check_server_identity_cb = h.userdata

\* C16: a call of compose, whether it returns or raises, leaves every
\* owner that existed before the call as it was (its handle, its mark and
\* its hidden instance variables, the receiver's included), releases no
\* handle an owner holds, and leaves the call credentials as they were.
C16_ComposeLeavesInputs ==
    [][(last.op = "none" /\ last'.op = "compose")
       => /\ \A o \in Owners :
                ostate[o] # "unalloc"
                => /\ wrapped'[o] = wrapped[o]
                   /\ mark'[o] = mark[o]
                   /\ ivars'[o] = ivars[o]
                   /\ ostate'[o] = ostate[o]
          /\ \A o \in Owners :
                wrapped[o] # NULL
                => released'[wrapped[o]] = released[wrapped[o]]
          /\ ccstate' = ccstate /\ ccRooted' = ccRooted]_vars

\* C16 witness: compose has succeeded on a receiver on which an earlier
\* compose had failed at its second step; the receiver still holds its
\* handle, which was never released.
C16_Witness ==
    /\ last.op = "compose" /\ last.status = "ok" /\ Len(last.argv) >= 1
    /\ last.pre # NULL
    /\ wrapped[last.self] = last.pre /\ released[last.pre] = 0
    /\ \E h \in 1..Len(handles) :
          /\ handles[h].kind = "composite" /\ handles[h].chan = last.pre
          /\ h \notin Range(last.allocated)

\* The provider calls of steps k..n of a fold over argv that starts from
\* handle h and produces the handles made: step k composes the handle of
\* step k-1 with argv[k], and only then is the handle of step k-1
\* released, unless it is the receiver's (k = 1).
RECURSIVE FoldCalls(_, _, _, _)
FoldCalls(k, argv, h, made) ==
    IF k > Len(argv) THEN <<>>
    ELSE << <<"create", h, grpc_rb_get_wrapped_call_credentials(argv[k])>> >>
         \o (IF k >= 2 THEN << <<"release", h>> >> ELSE <<>>)
         \o FoldCalls(k + 1, argv, made[k], made)

\* C17: a successful compose with n >= 1 extras has made exactly n provider
\* compositions in order, the k-th of the handle of step k-1 (the
\* receiver's for k = 1) with the k-th extra, each intermediate handle
\* being released right after the next composition and nothing else being
\* released; the returned owner holds the handle of step n, unreleased,
\* and the receiver's handle has not been released.
C17_FoldOrder ==
    (last.op = "compose" /\ last.status = "ok" /\ Len(last.argv) >= 1)
    => /\ Len(last.allocated) = Len(last.argv)
       /\ last.calls = FoldCalls(1, last.argv, last.pre, last.allocated)
       /\ \A k \in 1..Len(last.argv) :
             handles[last.allocated[k]] =
                CompositeHandle(IF k = 1 THEN last.pre
                                ELSE last.allocated[k - 1],
                                grpc_rb_get_wrapped_call_credentials(
                                    last.argv[k]))
       /\ last.rel = SubSeq(last.allocated, 1, Len(last.argv) - 1)
       /\ wrapped[last.result] = last.allocated[Len(last.argv)]
       /\ released[wrapped[last.result]] = 0
       /\ last.pre # NULL => released[last.pre] = 0

\* C17 witness: compose(base, [c1, c2]) has succeeded: two compositions,
\* the first handle released after the second composition, the result
\* holding the second handle.
C17_Witness ==
    /\ last.op = "compose" /\ last.status = "ok" /\ Len(last.argv) = 2
    /\ last.argv[1] # last.argv[2]
    /\ Len(last.calls) = 3 /\ last.calls[3] = <<"release", last.allocated[1]>>
    /\ released[last.allocated[1]] = 1
    /\ wrapped[last.result] = last.allocated[2]

\* C18: under fair scheduling, every invocation that has entered
\* rb_thread_call_with_gvl eventually returns a decision to the provider.
C18_EveryInvocationReturns ==
    \A t \in Threads :
        (pc[t] = "wait_gvl") ~> (pc[t] = "returned" /\ ret[t] \in {0, 1})

\* C19: a call of the override hook that runs while set_default_roots_pem
\* runs and reports found=true with a buffer hands out a complete text
\* given to set_default_roots_pem, never a buffer whose content has not
\* been copied yet.
C19_NoTornRoots ==
    (override.pc = "done" /\ override.found /\ override.ptr # NULL)
    => override.text \in RootTexts

\* The decision of an invocation that runs alone with userdata u and whose
\* callable ends with outcome out.
DecisionAlone(u, out) ==
    IF u = CNULL \/ rb_class_of(u) \notin {"Proc", "Symbol"} THEN 1
    ELSE IF out \in {"truthy", "falsy"} THEN 0 ELSE 1

\* C20: whatever the interleaving, a callable is called with the userdata,
\* servername and certificate of its own invocation, the decision an
\* invocation returns is the one it returns when it runs alone with the
\* same callable outcome, and a step of one invocation changes nothing
\* that belongs to another.
C20_NoSharedState ==
    /\ [](\A t \in Threads :
            /\ pc[t] \in {"try", "callable", "have_result"}
                  => passthrough[t] = <<params[t].userdata,
                                        rb_str_or_nil(params[t].servername),
                                        rb_str_or_nil(params[t].cert)>>
            /\ pc[t] = "returned"
                  => ret[t] = DecisionAlone(params[t].userdata, outcome[t]))
    /\ [][\A t \in Threads :
            pc'[t] = pc[t]
            => /\ params'[t] = params[t]
               /\ passthrough'[t] = passthrough[t]
               /\ outcome'[t] = outcome[t]
               /\ rb_result'[t] = rb_result[t]
               /\ ret'[t] = ret[t]]_vars

\* C20 witness: one invocation has returned accept for its Proc and its
\* server name while another, made with a Symbol and no server name, holds
\* the result 1 of its rescued exception.
C20_Witness ==
    \E t1 \in Threads, t2 \in Threads :
        /\ pc[t1] = "returned" /\ params[t1].userdata = ProcA
        /\ params[t1].servername = "example.com" /\ ret[t1] = 0
        /\ pc[t2] = "have_result" /\ params[t2].userdata = SymB
        /\ params[t2].servername = CNULL
        /\ IsStandardError(outcome[t2]) /\ rb_result[t2] = 1

====
